---- MODULE Spec2Model ----
(***************************************************************************)
(* Object lifecycle of the LLRI Vulkan backend: createInstance,            *)
(* destroyInstance, InstanceT::enumerateAdapters, InstanceT::createDevice  *)
(* and InstanceT::destroyDevice of src/legion/engine/llri-vk/source.cpp,   *)
(* driven by a caller that passes arbitrary (also malformed) arguments and *)
(* by a native driver whose calls may fail.                                *)
(*                                                                         *)
(* Every heap object and every native handle is a pair <<kind, n>>; Null   *)
(* is the null pointer / VK_NULL_HANDLE.                                   *)
(***************************************************************************)
EXTENDS Integers, Sequences, FiniteSets

\* ---------------------------------------------------------------- bounds
MaxHandles == 2          \* physical devices the driver can report
MaxExtensions == 2       \* longest InstanceDesc.extensions array
MaxAdapterExtensions == 1 \* longest DeviceDesc.extensions array
MaxDevices == 1          \* Device objects alive at once
MaxNativeInstances == 2  \* successful vkCreateInstance calls in one run
MaxFrames == 4           \* iterations of the sandbox frame loop
MaxInFlight == 2         \* submissions the queue holds at once

\* ------------------------------------------------------------- vocabulary
Null == <<"Null", 0>>

PhysicalDevices == {<<"VkPhysicalDevice", n>> : n \in 1..MaxHandles}

\* vk::Result values the modelled native calls return
NativeErrors == {"eErrorOutOfHostMemory", "eErrorInitializationFailed"}

InstanceErrors == {"eErrorOutOfHostMemory", "eErrorIncompatibleDriver"}

\* enum instance_extension_type, and one value a caller built against a
\* newer header passes (testsystem.cpp requests AdapterNodes)
InstanceExtensionTypes == {"APIValidation", "GPUValidation"}

RequestedInstanceExtensionTypes == InstanceExtensionTypes \cup {"AdapterNodes"}

InstanceExtensions == [type : RequestedInstanceExtensionTypes, enable : BOOLEAN]

SeqsUpTo(S, n) == UNION {[1..k -> S] : k \in 0..n}

\* adapter extension types: the switch of queryExtensionSupport has no case
\* for any value, so one value stands for them all
AdapterExtensionTypes == {"AdapterExtension"}

\* the queue descriptor arrays the callers pass, and the empty one
SandboxQueues == <<[type |-> "Graphics", priority |-> "High"]>>

TestSystemQueues ==
    << [type |-> "Graphics", priority |-> "High"],
       [type |-> "Compute", priority |-> "Normal"],
       [type |-> "Transfer", priority |-> "Normal"] >>

QueueDescArrays == {<<>>, SandboxQueues, TestSystemQueues}

\* vk::DeviceQueueCreateInfo{ {}, 0, 1, &queuePriorities } with queuePriorities = 1.0f
DefaultQueue == [family |-> 0, count |-> 1, priority |-> "1.0f"]

\* ------------------------------------------------------------------ state
VARIABLES
    heap,             \* live C++ objects (InstanceT, AdapterT, DeviceT)
    instance,         \* the caller's Instance variable
    m_ptr,            \* InstanceT::m_ptr of the caller's instance
    m_cachedAdapters, \* InstanceT::m_cachedAdapters: native handle -> Adapter
    adapterPtr,       \* AdapterT::m_ptr of every live Adapter
    devicePtr,        \* DeviceT::m_ptr of every live Device
    held,             \* Adapters enumerateAdapters handed to the caller
    nativeInstances,  \* VkInstance handles created and not destroyed
    nativeDevices,    \* VkDevice handles created and not destroyed
    crashed,          \* the process died on an invalid memory access, or
                      \* hangs in a native call that never returns
    call,             \* the last API call: its arguments and what it did
    pc,               \* the statement of the sandbox's main that runs next
    frame,            \* the iteration of the frame loop main is in
    m_commandList,    \* the state of the sandbox's CommandList
    m_fence,          \* the state of the sandbox's Fence
    m_graphicsQueue,  \* the submissions the queue has not completed, oldest first
    deviceLost,       \* the device disappeared
    frameCall         \* the last call of the frame loop and what it found

backendVars == <<heap, instance, m_ptr, m_cachedAdapters, adapterPtr, devicePtr,
                 held, nativeInstances, nativeDevices, call>>

frameVars == <<pc, frame, m_commandList, m_fence, m_graphicsQueue, deviceLost,
               frameCall>>

vars == <<heap, instance, m_ptr, m_cachedAdapters, adapterPtr, devicePtr,
          held, nativeInstances, nativeDevices, crashed, call,
          pc, frame, m_commandList, m_fence, m_graphicsQueue, deviceLost,
          frameCall>>

OfKind(kind, objects) == {o \in objects : o[1] = kind}

\* operator new / a native creation: the lowest address no live object of
\* the kind has
NewObject(kind, objects) ==
    <<kind, CHOOSE n \in 1..(Cardinality(OfKind(kind, objects)) + 1) :
                /\ <<kind, n>> \notin objects
                /\ \A m \in 1..(n - 1) : <<kind, m>> \in objects>>

Extend(f, k, v) == [x \in DOMAIN f \cup {k} |-> IF x = k THEN v ELSE f[x]]

Restrict(f, S) == [x \in S |-> f[x]]

Range(f) == {f[x] : x \in DOMAIN f}

Event(ev, obj) == [ev |-> ev, obj |-> obj]

\* the elements of a set of <<kind, n>> pairs in ascending order of n
RECURSIVE Ascending(_)
Ascending(S) ==
    IF S = {} THEN <<>>
    ELSE LET least == CHOOSE x \in S : \A y \in S : x[2] <= y[2]
         IN <<least>> \o Ascending(S \ {least})

NoCall ==
    [ op |-> "none", result |-> "none",
      arg |-> Null,            \* the object argument (instance, device, desc.adapter)
      outNull |-> FALSE,       \* the output pointer argument is nullptr
      wrote |-> FALSE,         \* the output was written
      extensions |-> <<>>,     \* desc.extensions
      extensionsNull |-> FALSE,
      numExtensions |-> 0,
      queueDescs |-> <<>>,     \* desc.queueDescs
      lost |-> FALSE,          \* desc.adapter->m_ptr was nullptr at the call
      native |-> <<>>,         \* the vk::Result of each native call made
      layers |-> <<>>,         \* ci.ppEnabledLayerNames
      pNext |-> Null,          \* ci.pNext
      featuresPNext |-> Null,  \* features.pNext
      queues |-> <<>>,         \* ci.pQueueCreateInfos
      physicalDevices |-> <<>>,\* the vector after the second native call
      adapters |-> <<>>,       \* what the call appended to *adapters
      events |-> <<>> ]        \* news, deletes and native creations/destructions

NoFrameCall ==
    [ op |-> "none", result |-> "none",
      frame |-> 0,             \* the iteration that made the call
      found |-> "nullptr",     \* the state the call found the CommandList in
      inFlight |-> 0 ]         \* submissions the queue held when it was made

\* the sandbox's globals before main has set anything up
Globals ==
    /\ pc = "setup"
    /\ frame = 0
    /\ m_commandList = "nullptr"
    /\ m_fence = "nullptr"
    /\ m_graphicsQueue = <<>>
    /\ deviceLost = FALSE
    /\ frameCall = NoFrameCall

Init ==
    /\ Globals
    /\ heap = {}
    /\ instance = Null
    /\ m_ptr = Null
    /\ m_cachedAdapters = [h \in {} |-> Null]
    /\ adapterPtr = [a \in {} |-> Null]
    /\ devicePtr = [d \in {} |-> Null]
    /\ held = {}
    /\ nativeInstances = {}
    /\ nativeDevices = {}
    /\ crashed = FALSE
    /\ call = NoCall

\* internal::mapVkResult: declared in source.cpp, defined elsewhere
mapVkResult(r) ==
    CASE r = "eSuccess" -> "Success"
      [] r = "eErrorOutOfHostMemory" -> "ErrorOutOfMemory"
      [] r = "eErrorInitializationFailed" -> "ErrorInitializationFailed"
      [] r = "eErrorIncompatibleDriver" -> "ErrorIncompatibleDriver"
      [] OTHER -> "ErrorUnknown"

\* the caller is not inside a call and the process is alive
Ready == ~crashed /\ call.op = "none"

Created(events) == {events[i].obj : i \in {j \in 1..Len(events) : events[j].ev = "new"}}

Deleted(events) == {events[i].obj : i \in {j \in 1..Len(events) : events[j].ev = "delete"}}

\* a return that leaves the caller's objects alone: what the call itself
\* allocated stays on the heap unless the call deleted it
Returns(c) ==
    /\ call' = c
    /\ heap' = (heap \cup Created(c.events)) \ Deleted(c.events)
    /\ UNCHANGED <<instance, m_ptr, m_cachedAdapters, adapterPtr, devicePtr,
                   held, nativeInstances, nativeDevices, crashed>>

\* -------------------------------------------------------- destroyInstance
\* the deletes of destroyInstance on a non-null instance, in program order:
\* every value of the (key-ordered) std::map, then the instance itself
destroyInstanceEvents(inst, cachedAdapters) ==
    [i \in 1..Cardinality(DOMAIN cachedAdapters) |->
        Event("delete", cachedAdapters[Ascending(DOMAIN cachedAdapters)[i]])]
    \o <<Event("delete", inst)>>

destroyInstance(inst) ==
    LET c == [NoCall EXCEPT !.op = "destroyInstance", !.arg = inst]
        events == destroyInstanceEvents(inst, m_cachedAdapters)
    IN
    /\ Ready
    /\ IF inst = Null
       THEN Returns(c)
       ELSE /\ inst = instance /\ instance \in heap
            \* the callers destroy their Device before their Instance
            /\ OfKind("Device", heap) = {}
            /\ heap' = heap \ Deleted(events)
            /\ adapterPtr' = Restrict(adapterPtr, DOMAIN adapterPtr \ Deleted(events))
            /\ m_cachedAdapters' = [h \in {} |-> Null]
            /\ m_ptr' = Null
            /\ held' = {}
            /\ call' = [c EXCEPT !.events = events]
            /\ UNCHANGED <<instance, devicePtr, nativeInstances, nativeDevices, crashed>>

\* --------------------------------------------------------- createInstance
ValidationLayer == "VK_LAYER_KHRONOS_validation"

\* the address of the local vk::ValidationFeaturesEXT features
Features == <<"ValidationFeaturesEXT", 1>>

\* ExtensionStep with a default case that breaks instead of failing
ExtensionStepSkipsUnknown(b, extension) ==
    CASE extension.type = "APIValidation" ->
            IF extension.enable
            THEN [b EXCEPT !.layers = Append(@, ValidationLayer)]
            ELSE b
      [] extension.type = "GPUValidation" ->
            IF extension.enable
            THEN [b EXCEPT !.featuresPNext = b.pNext, !.pNext = Features]
            ELSE b
      [] OTHER -> b

\* one iteration of the extension loop; b is the state the loop builds
ExtensionStep(b, extension) ==
    CASE extension.type = "APIValidation" ->
            IF extension.enable
            THEN [b EXCEPT !.layers = Append(@, ValidationLayer)]
            ELSE b
      [] extension.type = "GPUValidation" ->
            IF extension.enable
            THEN [b EXCEPT !.featuresPNext = b.pNext, !.pNext = Features]
            ELSE b
      [] OTHER -> [b EXCEPT !.supported = FALSE]

RECURSIVE ExtensionLoop(_, _, _)
ExtensionLoop(extensions, i, b) ==
    IF i > Len(extensions) \/ ~b.supported
    THEN b
    ELSE ExtensionLoop(extensions, i + 1, ExtensionStep(b, extensions[i]))

\* the return on a failed vk::createInstance
InstanceCreationFailed(c, result, createResult) ==
    [c EXCEPT !.result = mapVkResult(createResult),
              !.events = @ \o destroyInstanceEvents(result, [h \in {} |-> Null])]

createInstance(outNull, numExtensions, extensionsNull, extensions, createResult) ==
    LET c == [NoCall EXCEPT !.op = "createInstance", !.outNull = outNull,
                            !.numExtensions = numExtensions,
                            !.extensionsNull = extensionsNull,
                            !.extensions = extensions]
        result == NewObject("Instance", heap)
        b == ExtensionLoop(extensions, 1,
                 [layers |-> <<>>, pNext |-> Null, featuresPNext |-> Null,
                  supported |-> TRUE])
        built == [c EXCEPT !.events = <<Event("new", result)>>]
        ci == [built EXCEPT !.layers = b.layers, !.pNext = b.pNext,
                            !.featuresPNext = b.featuresPNext,
                            !.native = <<createResult>>]
        vulkanInstance == NewObject("VkInstance", nativeInstances)
    IN
    /\ Ready
    /\ instance \notin heap
    /\ IF outNull
       THEN Returns([c EXCEPT !.result = "ErrorInvalidUsage"])
       ELSE IF numExtensions > 0 /\ extensionsNull
       THEN Returns([c EXCEPT !.result = "ErrorInvalidUsage"])
       ELSE IF ~b.supported
       THEN Returns([built EXCEPT
                !.result = "ErrorExtensionNotSupported",
                !.events = @ \o destroyInstanceEvents(result, [h \in {} |-> Null])])
       ELSE IF createResult = "noReturn"
       THEN \* features.pNext = &features: a chain the driver walks for ever
            /\ b.featuresPNext = Features
            /\ crashed' = TRUE
            /\ heap' = heap \cup {result}
            /\ call' = ci
            /\ UNCHANGED <<instance, m_ptr, m_cachedAdapters, adapterPtr, devicePtr,
                           held, nativeInstances, nativeDevices>>
       ELSE IF createResult # "eSuccess"
       THEN Returns(InstanceCreationFailed(ci, result, createResult))
       ELSE /\ Cardinality(nativeInstances) < MaxNativeInstances
            /\ heap' = heap \cup {result}
            /\ instance' = result
            /\ m_ptr' = vulkanInstance
            /\ m_cachedAdapters' = [h \in {} |-> Null]
            /\ nativeInstances' = nativeInstances \cup {vulkanInstance}
            /\ call' = [ci EXCEPT !.result = "Success", !.wrote = TRUE,
                                  !.events = @ \o <<Event("vkCreateInstance", vulkanInstance)>>]
            /\ UNCHANGED <<adapterPtr, devicePtr, held, nativeDevices, crashed>>

\* ------------------------------------------------------ enumerateAdapters
\* ClearInternalPointers left out: every cached Adapter keeps its handle
ClearInternalPointersSkipped(s) == s

\* ClearInternalPointers that drops the cache instead: deletes every cached
\* Adapter and empties the map
EvictCachedAdapters(s) ==
    [s EXCEPT !.heap = @ \ Range(s.cache),
              !.ptr = Restrict(@, DOMAIN @ \ Range(s.cache)),
              !.cache = [h \in {} |-> Null]]

\* "Clear internal pointers": every cached Adapter loses its native handle
ClearInternalPointers(s) ==
    [s EXCEPT !.ptr = [a \in DOMAIN s.ptr |->
                          IF a \in Range(s.cache) THEN Null ELSE s.ptr[a]]]

\* AdapterStep without the cache lookup: a new Adapter for every handle
AdapterStepAlwaysNew(s, physicalDevice) ==
    LET adapter == NewObject("Adapter", s.heap)
    IN [s EXCEPT !.heap = @ \cup {adapter},
                 !.events = Append(@, Event("new", adapter)),
                 !.ptr = Extend(@, adapter, physicalDevice),
                 !.cache = Extend(@, physicalDevice, adapter),
                 !.adapters = Append(@, adapter)]

\* one iteration of the loop over physicalDevices
AdapterStep(s, physicalDevice) ==
    IF physicalDevice \in DOMAIN s.cache
    THEN [s EXCEPT !.ptr[s.cache[physicalDevice]] = physicalDevice,
                   !.adapters = Append(@, s.cache[physicalDevice])]
    ELSE LET adapter == NewObject("Adapter", s.heap)
         IN [s EXCEPT !.heap = @ \cup {adapter},
                      !.events = Append(@, Event("new", adapter)),
                      !.ptr = Extend(@, adapter, physicalDevice),
                      !.cache = Extend(@, physicalDevice, adapter),
                      !.adapters = Append(@, adapter)]

RECURSIVE AdapterLoop(_, _, _)
AdapterLoop(physicalDevices, i, s) ==
    IF i > Len(physicalDevices)
    THEN s
    ELSE AdapterLoop(physicalDevices, i + 1, AdapterStep(s, physicalDevices[i]))

\* The second vkEnumeratePhysicalDevices call, given room for count handles
\* while the devices of `present` exist: the result code and the handles it
\* writes. With count = 0 the vector is empty and data() may be nullptr,
\* which makes the call a second count query.
SecondCallOutcomes(count, present) ==
    {[r |-> e, written |-> {}] : e \in NativeErrors}
    \cup (IF Cardinality(present) <= count
          THEN {[r |-> "eSuccess", written |-> present]}
          ELSE {[r |-> "eIncomplete", written |-> w] :
                    w \in {x \in SUBSET present : Cardinality(x) = count}}
               \cup (IF count = 0 THEN {[r |-> "eSuccess", written |-> {}]} ELSE {}))

\* physicalDevices after the second call: resize(count) default-constructs
\* null handles, the call overwrites the first Cardinality(written) of them
PhysicalDeviceVector(count, written) ==
    Ascending(written) \o [i \in 1..(count - Cardinality(written)) |-> Null]

enumerateAdapters(adaptersNull, r1, count, second) ==
    LET c == [NoCall EXCEPT !.op = "enumerateAdapters", !.arg = instance,
                            !.outNull = adaptersNull]
        s0 == [cache |-> m_cachedAdapters, ptr |-> adapterPtr, heap |-> heap,
               adapters |-> <<>>, events |-> <<>>]
        s1 == ClearInternalPointers(s0)
        physicalDevices == PhysicalDeviceVector(count, second.written)
        s2 == AdapterLoop(physicalDevices, 1, s1)
    IN
    /\ Ready
    /\ instance \in heap
    /\ IF adaptersNull
       THEN Returns([c EXCEPT !.result = "ErrorInvalidUsage"])
       ELSE IF r1 # "eSuccess" /\ r1 # "eTimeout"
       THEN /\ adapterPtr' = s1.ptr
            /\ call' = [c EXCEPT !.result = mapVkResult(r1), !.native = <<r1>>]
            /\ UNCHANGED <<heap, instance, m_ptr, m_cachedAdapters, devicePtr,
                           held, nativeInstances, nativeDevices, crashed>>
       ELSE IF second.r # "eSuccess"
       THEN /\ adapterPtr' = s1.ptr
            /\ call' = [c EXCEPT !.result = mapVkResult(second.r),
                                 !.native = <<r1, second.r>>,
                                 !.physicalDevices = physicalDevices]
            /\ UNCHANGED <<heap, instance, m_ptr, m_cachedAdapters, devicePtr,
                           held, nativeInstances, nativeDevices, crashed>>
       ELSE /\ heap' = s2.heap
            /\ m_cachedAdapters' = s2.cache
            /\ adapterPtr' = s2.ptr
            /\ held' = held \cup Range(s2.adapters)
            /\ call' = [c EXCEPT !.result = "Success",
                                 !.native = <<r1, second.r>>,
                                 !.physicalDevices = physicalDevices,
                                 !.adapters = s2.adapters,
                                 !.events = s2.events,
                                 !.wrote = s2.adapters # <<>>]
            /\ UNCHANGED <<instance, m_ptr, devicePtr, nativeInstances,
                           nativeDevices, crashed>>

\* ----------------------------------------------------------- destroyDevice
\* what destroyDevice does to a Device whose m_ptr is ptr
destroyDeviceEvents(device, ptr) ==
    <<Event("read", device)>>
    \o (IF ptr # Null THEN <<Event("vkDestroyDevice", ptr)>> ELSE <<>>)
    \o <<Event("delete", device)>>

destroyDevice(device, fault) ==
    LET c == [NoCall EXCEPT !.op = "destroyDevice", !.arg = device]
    IN
    /\ Ready
    /\ instance \in heap
    /\ IF device = Null
       THEN \* device->m_ptr reads through a null pointer: the read traps, or
            \* it yields nullptr and delete nullptr does nothing
            /\ crashed' = fault
            /\ call' = [c EXCEPT !.events = <<Event("read", Null)>>]
            /\ UNCHANGED <<heap, instance, m_ptr, m_cachedAdapters, adapterPtr,
                           devicePtr, held, nativeInstances, nativeDevices>>
       ELSE /\ device \in OfKind("Device", heap)
            /\ fault = FALSE
            /\ heap' = heap \ {device}
            /\ nativeDevices' = nativeDevices \ {devicePtr[device]}
            /\ devicePtr' = Restrict(devicePtr, DOMAIN devicePtr \ {device})
            /\ call' = [c EXCEPT !.events = destroyDeviceEvents(device, devicePtr[device])]
            /\ UNCHANGED <<instance, m_ptr, m_cachedAdapters, adapterPtr, held,
                           nativeInstances, crashed>>

\* ------------------------------------------------------------ createDevice
\* AdapterT::queryExtensionSupport: the switch has no case, every type falls
\* through to return false
queryExtensionSupport(type) == FALSE

\* createDeviceChecks without the test of desc.adapter->m_ptr
createDeviceChecksNoLostTest(instancePtr, deviceNull, adapter, numExtensions, extensionsNull, ptr) ==
    IF instancePtr = Null \/ deviceNull \/ adapter = Null
    THEN "ErrorInvalidUsage"
    ELSE IF numExtensions > 0 /\ extensionsNull
    THEN "ErrorInvalidUsage"
    ELSE "Success"

\* the argument checks at the head of createDevice: the error they return,
\* or "Success" when the call goes on
createDeviceChecks(instancePtr, deviceNull, adapter, numExtensions, extensionsNull, ptr) ==
    IF instancePtr = Null \/ deviceNull \/ adapter = Null
    THEN "ErrorInvalidUsage"
    ELSE IF numExtensions > 0 /\ extensionsNull
    THEN "ErrorInvalidUsage"
    ELSE IF ptr[adapter] = Null
    THEN "ErrorDeviceLost"
    ELSE "Success"

\* the vector of vk::DeviceQueueCreateInfo handed to the native call: the
\* local vector starts empty, nothing fills it from desc, the default is added
DeviceQueues(queueDescs) ==
    LET queues == <<>>
    IN IF Len(queues) = 0 THEN Append(queues, DefaultQueue) ELSE queues

\* DeviceCreationFailed that returns without destroyDevice(result)
DeviceCreationFailedLeaks(c, result, r) ==
    [c EXCEPT !.result = mapVkResult(r)]

\* the return on a failed vk::PhysicalDevice::createDevice: result is the
\* new DeviceT, whose m_ptr is still nullptr
DeviceCreationFailed(c, result, r) ==
    [c EXCEPT !.result = mapVkResult(r),
              !.events = @ \o destroyDeviceEvents(result, Null)]

createDevice(deviceNull, adapter, numExtensions, extensionsNull, extensions, queueDescs, r) ==
    LET c == [NoCall EXCEPT !.op = "createDevice", !.arg = adapter,
                            !.outNull = deviceNull,
                            !.numExtensions = numExtensions,
                            !.extensionsNull = extensionsNull,
                            !.extensions = extensions,
                            !.queueDescs = queueDescs,
                            !.lost = (adapter # Null /\ adapterPtr[adapter] = Null)]
        checks == createDeviceChecks(m_ptr, deviceNull, adapter, numExtensions,
                                     extensionsNull, adapterPtr)
        result == NewObject("Device", heap)
        vkDevice == NewObject("VkDevice", nativeDevices)
        ci == [c EXCEPT !.events = <<Event("new", result)>>,
                        !.queues = DeviceQueues(queueDescs),
                        !.native = <<r>>]
    IN
    /\ Ready
    /\ instance \in heap
    /\ adapter \in held \cup {Null}
    /\ IF checks # "Success"
       THEN Returns([c EXCEPT !.result = checks])
       ELSE /\ Cardinality(OfKind("Device", heap)) < MaxDevices
            /\ IF r # "eSuccess"
               THEN Returns(DeviceCreationFailed(ci, result, r))
               ELSE /\ heap' = heap \cup {result}
                    /\ devicePtr' = Extend(devicePtr, result, vkDevice)
                    /\ nativeDevices' = nativeDevices \cup {vkDevice}
                    /\ call' = [ci EXCEPT !.result = "Success", !.wrote = TRUE,
                                          !.events = @ \o <<Event("vkCreateDevice", vkDevice)>>]
                    /\ UNCHANGED <<instance, m_ptr, m_cachedAdapters, adapterPtr,
                                   held, nativeInstances, crashed>>

\* -------------------------------------------------- queryInfo, queryFeatures
\* queryInfoChecks without the test of m_ptr
queryInfoChecksNoLostTest(infoNull, ptr) ==
    IF infoNull THEN "ErrorInvalidUsage" ELSE "Success"

\* the checks at the head of AdapterT::queryInfo: the error they return, or
\* "Success" when the call goes on to the native query
queryInfoChecks(infoNull, ptr) ==
    IF infoNull
    THEN "ErrorInvalidUsage"
    ELSE IF ptr = Null
    THEN "ErrorDeviceRemoved"
    ELSE "Success"

\* the checks at the head of AdapterT::queryFeatures
queryFeaturesChecks(featuresNull, ptr) ==
    IF featuresNull
    THEN "ErrorInvalidUsage"
    ELSE IF ptr = Null
    THEN "ErrorDeviceRemoved"
    ELSE "Success"

\* the native query on the handle ptr, the write of *info, the return
impl_queryInfo(c, ptr) ==
    [c EXCEPT !.events = <<Event("vkGetPhysicalDeviceProperties", ptr)>>,
              !.wrote = TRUE,
              !.result = "Success"]

impl_queryFeatures(c, ptr) ==
    [c EXCEPT !.events = <<Event("vkGetPhysicalDeviceFeatures", ptr)>>,
              !.wrote = TRUE,
              !.result = "Success"]

queryInfo(adapter, infoNull) ==
    LET c == [NoCall EXCEPT !.op = "queryInfo", !.arg = adapter,
                            !.outNull = infoNull,
                            !.lost = (adapterPtr[adapter] = Null)]
        checks == queryInfoChecks(infoNull, adapterPtr[adapter])
    IN
    /\ Ready
    /\ IF checks # "Success"
       THEN Returns([c EXCEPT !.result = checks])
       ELSE Returns(impl_queryInfo(c, adapterPtr[adapter]))

queryFeatures(adapter, featuresNull) ==
    LET c == [NoCall EXCEPT !.op = "queryFeatures", !.arg = adapter,
                            !.outNull = featuresNull,
                            !.lost = (adapterPtr[adapter] = Null)]
        checks == queryFeaturesChecks(featuresNull, adapterPtr[adapter])
    IN
    /\ Ready
    /\ IF checks # "Success"
       THEN Returns([c EXCEPT !.result = checks])
       ELSE Returns(impl_queryFeatures(c, adapterPtr[adapter]))

\* ------------------------------------------------------------ the program
\* an extension array as the caller passes it: a null pointer with any
\* count, or an array of numExtensions elements
ExtensionArgs(elements, maxLen) ==
    {[numExtensions |-> n, extensionsNull |-> TRUE, extensions |-> <<>>] :
        n \in 0..maxLen}
    \cup {[numExtensions |-> Len(x), extensionsNull |-> FALSE, extensions |-> x] :
        x \in SeqsUpTo(elements, maxLen)}

\* the results a native call can give; a call that is never reached gives none
NativeResults(reached, errors) ==
    IF reached THEN {"eSuccess"} \cup errors ELSE {"eSuccess"}

Supported(extensions) ==
    \A i \in 1..Len(extensions) : extensions[i].type \in InstanceExtensionTypes

\* the chain the loop builds from extensions leads back into itself
CyclicChain(extensions) ==
    ExtensionLoop(extensions, 1,
        [layers |-> <<>>, pNext |-> Null, featuresPNext |-> Null,
         supported |-> TRUE]).featuresPNext = Features

CreateInstance ==
    /\ Ready
    /\ UNCHANGED frameVars
    /\ \E outNull \in BOOLEAN, e \in ExtensionArgs(InstanceExtensions, MaxExtensions) :
           \E createResult \in NativeResults(~outNull /\ Supported(e.extensions)
                                             /\ ~(e.numExtensions > 0 /\ e.extensionsNull),
                                             InstanceErrors)
                               \cup (IF ~outNull /\ Supported(e.extensions)
                                         /\ CyclicChain(e.extensions)
                                      THEN {"noReturn"} ELSE {}) :
               createInstance(outNull, e.numExtensions, e.extensionsNull, e.extensions,
                              createResult)

DestroyInstance ==
    /\ Ready
    /\ UNCHANGED frameVars
    /\ \E inst \in {Null, instance} : destroyInstance(inst)

EnumerateAdapters ==
    /\ Ready
    /\ UNCHANGED frameVars
    /\ \E adaptersNull \in BOOLEAN :
           \E r1 \in NativeResults(~adaptersNull, NativeErrors) :
               \E count \in (IF ~adaptersNull /\ r1 = "eSuccess" THEN 0..MaxHandles ELSE {0}) :
                   \E second \in UNION {SecondCallOutcomes(count, present) :
                                           present \in SUBSET PhysicalDevices} :
                       /\ (adaptersNull \/ r1 # "eSuccess") => second.r = "eSuccess"
                       /\ enumerateAdapters(adaptersNull, r1, count, second)

CreateDevice ==
    /\ Ready
    /\ UNCHANGED frameVars
    /\ \E deviceNull \in BOOLEAN, adapter \in held \cup {Null},
          e \in ExtensionArgs(AdapterExtensionTypes, MaxAdapterExtensions),
          queueDescs \in QueueDescArrays :
           \E r \in NativeResults(
                       createDeviceChecks(m_ptr, deviceNull, adapter, e.numExtensions,
                                          e.extensionsNull, adapterPtr) = "Success",
                       NativeErrors) :
               createDevice(deviceNull, adapter, e.numExtensions, e.extensionsNull,
                            e.extensions, queueDescs, r)

DestroyDevice ==
    /\ Ready
    /\ UNCHANGED frameVars
    /\ \E device \in OfKind("Device", heap) \cup {Null}, fault \in BOOLEAN :
           destroyDevice(device, fault)

QueryInfo ==
    /\ Ready
    /\ UNCHANGED frameVars
    /\ \E adapter \in held, infoNull \in BOOLEAN : queryInfo(adapter, infoNull)

QueryFeatures ==
    /\ Ready
    /\ UNCHANGED frameVars
    /\ \E adapter \in held, featuresNull \in BOOLEAN :
           queryFeatures(adapter, featuresNull)

\* the caller has looked at the result of its last call and goes on
Continue ==
    /\ ~crashed /\ call.op # "none"
    /\ call' = NoCall
    /\ UNCHANGED <<heap, instance, m_ptr, m_cachedAdapters, adapterPtr, devicePtr,
                   held, nativeInstances, nativeDevices, crashed>>
    /\ UNCHANGED frameVars

Next ==
    \/ Continue
    \/ CreateInstance
    \/ DestroyInstance
    \/ EnumerateAdapters
    \/ CreateDevice
    \/ DestroyDevice
    \/ QueryInfo
    \/ QueryFeatures

Spec == Init /\ [][Next]_vars

\* ----------------------------------------------------- the sandbox's frame loop
\* CommandGroup::allocate: the list it produces is in Initial
allocate == "Initial"

\* Device::createFence
createFence(flags) == IF flags = "Signaled" THEN "Signaled" ELSE "Unsignaled"

\* CommandGroup::reset leaves every list of the group in Initial
reset(list) == "Initial"

\* CommandList::record: Initial -> Recording, the body runs once,
\* Recording -> Executable; a list that is not in Initial is refused
begin(list) == "Recording"

end(list) == "Executable"

record(list) ==
    IF list # "Initial"
    THEN [result |-> "ErrorInvalidUsage", list |-> list]
    ELSE [result |-> "Success", list |-> end(begin(list))]

\* Queue::submit: only an Executable list is taken; it joins the queue behind
\* the earlier submissions, with the fence its completion signals
submit(list, queue, iteration) ==
    IF list # "Executable"
    THEN [result |-> "ErrorInvalidUsage", queue |-> queue]
    ELSE [result |-> "Success", queue |-> Append(queue, [frame |-> iteration, fence |-> "m_fence"])]

\* Device::waitFence with LLRI_TIMEOUT_MAX: returns at once on a signaled
\* fence, else blocks until the fence is signaled or the device is gone
waitFenceReturns(fence, lost) == fence = "Signaled" \/ lost

waitFence(fence, lost) == IF fence = "Signaled" THEN "Success" ELSE "ErrorDeviceLost"

\* what a call that needs the device answers once the device is gone
OnDevice(lostReported, result) == IF lostReported THEN "ErrorDeviceLost" ELSE result

\* the order of the statements in the body of while (true)
FollowingSkipsReset(step) ==
    CASE step = "waitFence" -> "record"
      [] step = "reset" -> "record"
      [] step = "record" -> "submit"
      [] step = "submit" -> "waitFence"

Following(step) ==
    CASE step = "waitFence" -> "reset"
      [] step = "reset" -> "record"
      [] step = "record" -> "submit"
      [] step = "submit" -> "waitFence"

\* the macro around reset, record and submit: any result but Success ends main
THROW_IF_FAILED(r, step) == IF r # "Success" THEN "thrown" ELSE Following(step)

\* main has run createInstance .. createResources and enters while (true)
FrameInit ==
    /\ heap = {<<"Instance", 1>>, <<"Adapter", 1>>, <<"Device", 1>>}
    /\ instance = <<"Instance", 1>>
    /\ m_ptr = <<"VkInstance", 1>>
    /\ m_cachedAdapters = [h \in {<<"VkPhysicalDevice", 1>>} |-> <<"Adapter", 1>>]
    /\ adapterPtr = [a \in {<<"Adapter", 1>>} |-> <<"VkPhysicalDevice", 1>>]
    /\ devicePtr = [d \in {<<"Device", 1>>} |-> <<"VkDevice", 1>>]
    /\ held = {<<"Adapter", 1>>}
    /\ nativeInstances = {<<"VkInstance", 1>>}
    /\ nativeDevices = {<<"VkDevice", 1>>}
    /\ crashed = FALSE
    /\ call = NoCall
    /\ pc = "waitFence"
    /\ frame = 1
    /\ m_commandList = allocate
    /\ m_fence = createFence("Signaled")
    /\ m_graphicsQueue = <<>>
    /\ deviceLost = FALSE
    /\ frameCall = NoFrameCall

InLoop(step) == ~crashed /\ pc = step

FrameCall(op) ==
    [NoFrameCall EXCEPT !.op = op, !.frame = frame, !.found = m_commandList,
                        !.inFlight = Len(m_graphicsQueue)]

\* m_device->waitFence(m_fence, LLRI_TIMEOUT_MAX); the result is dropped
WaitFence ==
    /\ InLoop("waitFence")
    /\ waitFenceReturns(m_fence, deviceLost)
    /\ frameCall' = [FrameCall("waitFence") EXCEPT !.result = waitFence(m_fence, deviceLost)]
    /\ pc' = Following("waitFence")
    /\ UNCHANGED <<frame, m_commandList, m_fence, m_graphicsQueue, deviceLost, crashed>>
    /\ UNCHANGED backendVars

\* THROW_IF_FAILED(m_commandGroup->reset()); a reset while a list of the
\* group is still on the queue is undefined: the work goes on, the device is
\* lost, or the process dies
Reset ==
    /\ InLoop("reset")
    /\ \E lostReported \in (IF deviceLost THEN BOOLEAN ELSE {FALSE}),
          race \in (IF m_graphicsQueue # <<>> THEN {"none", "deviceLost", "crash"} ELSE {"none"}) :
           LET r == OnDevice(lostReported, "Success") IN
           /\ frameCall' = [FrameCall("reset") EXCEPT
                               !.result = IF race = "crash" THEN "none" ELSE r]
           /\ crashed' = (race = "crash")
           /\ deviceLost' = (deviceLost \/ race = "deviceLost")
           /\ m_commandList' = (IF r = "Success" /\ race # "crash"
                                THEN reset(m_commandList) ELSE m_commandList)
           /\ pc' = (IF race = "crash" THEN pc ELSE THROW_IF_FAILED(r, "reset"))
    /\ UNCHANGED <<frame, m_fence, m_graphicsQueue>>
    /\ UNCHANGED backendVars

\* THROW_IF_FAILED(m_commandList->record(beginDesc, body, m_commandList))
Record ==
    /\ InLoop("record")
    /\ \E lostReported \in (IF deviceLost THEN BOOLEAN ELSE {FALSE}) :
           LET rec == record(m_commandList)
               r == IF rec.result = "Success" THEN OnDevice(lostReported, "Success")
                    ELSE rec.result
           IN
           /\ frameCall' = [FrameCall("record") EXCEPT !.result = r]
           /\ m_commandList' = (IF r = "Success" THEN rec.list ELSE m_commandList)
           /\ pc' = THROW_IF_FAILED(r, "record")
    /\ UNCHANGED <<frame, m_fence, m_graphicsQueue, deviceLost, crashed>>
    /\ UNCHANGED backendVars

\* THROW_IF_FAILED(m_graphicsQueue->submit(submitDesc)) with the one list and
\* m_fence; after it the body starts over
Submit ==
    /\ InLoop("submit")
    /\ frame < MaxFrames
    /\ Len(m_graphicsQueue) < MaxInFlight
    /\ LET sub == submit(m_commandList, m_graphicsQueue, frame)
           r == IF sub.result = "Success" THEN OnDevice(deviceLost, "Success")
                ELSE sub.result
       IN
       /\ frameCall' = [FrameCall("submit") EXCEPT !.result = r]
       /\ m_graphicsQueue' = (IF r = "Success" THEN sub.queue ELSE m_graphicsQueue)
       /\ pc' = THROW_IF_FAILED(r, "submit")
       /\ frame' = (IF r = "Success" THEN frame + 1 ELSE frame)
    /\ UNCHANGED <<m_commandList, m_fence, deviceLost, crashed>>
    /\ UNCHANGED backendVars

\* the device finishes the oldest submission and signals its fence
Complete ==
    /\ ~crashed /\ ~deviceLost
    /\ m_graphicsQueue # <<>>
    /\ m_graphicsQueue' = Tail(m_graphicsQueue)
    /\ m_fence' = "Signaled"
    /\ UNCHANGED <<pc, frame, m_commandList, deviceLost, frameCall, crashed>>
    /\ UNCHANGED backendVars

\* the device disappears; what it had queued never completes
DeviceLoss ==
    /\ ~crashed /\ ~deviceLost
    /\ deviceLost' = TRUE
    /\ UNCHANGED <<pc, frame, m_commandList, m_fence, m_graphicsQueue, frameCall, crashed>>
    /\ UNCHANGED backendVars

FrameNext ==
    \/ WaitFence
    \/ Reset
    \/ Record
    \/ Submit
    \/ Complete
    \/ DeviceLoss

FrameSpec == FrameInit /\ [][FrameNext]_vars

\* ------------------------------------------------------------ properties
EventsOf(ev) == {i \in 1..Len(call.events) : call.events[i].ev = ev}

EnumerationSucceeded == call.op = "enumerateAdapters" /\ call.result = "Success"

\* the same Instance is alive before and after the step
SameInstance == instance \in heap /\ instance \in heap' /\ instance' = instance

\* C1: while one Instance lives, a native handle that is mapped to an
\* Adapter stays mapped to that same Adapter over every step (so over any
\* sequence of enumerations, also when the handle is not reported in
\* between); a successful enumeration returns, for every handle it got, the
\* Adapter the cache maps it to, and constructs an Adapter only for a handle
\* that had none.
AdapterIdentityStable ==
    [][ SameInstance =>
          /\ \A h \in DOMAIN m_cachedAdapters :
                /\ h \in DOMAIN m_cachedAdapters'
                /\ m_cachedAdapters'[h] = m_cachedAdapters[h]
          /\ (call'.op = "enumerateAdapters" /\ call'.result = "Success") =>
                /\ Len(call'.adapters) = Len(call'.physicalDevices)
                /\ \A i \in 1..Len(call'.adapters) :
                      /\ call'.physicalDevices[i] \in DOMAIN m_cachedAdapters'
                      /\ call'.adapters[i] = m_cachedAdapters'[call'.physicalDevices[i]]
                /\ Cardinality(Created(call'.events))
                     = Cardinality(DOMAIN m_cachedAdapters' \ DOMAIN m_cachedAdapters)
                /\ \A a \in Created(call'.events) :
                      \E h \in DOMAIN m_cachedAdapters' \ DOMAIN m_cachedAdapters :
                          m_cachedAdapters'[h] = a
      ]_vars

\* C1 witness: an enumeration has returned an Adapter it did not construct
\* (a reused cache entry) while another cached Adapter is lost
AdapterReused ==
    /\ EnumerationSucceeded
    /\ \E i \in 1..Len(call.adapters) : call.adapters[i] \notin Created(call.events)
    /\ \E a \in Range(m_cachedAdapters) : adapterPtr[a] = Null

\* C2: while the Instance lives, every Adapter an enumeration ever returned
\* is still an entry of the cache and still a live object, lost or not: no
\* enumeration removes or frees a cache entry.
LostAdaptersStayCached ==
    instance \in heap =>
        /\ held \subseteq Range(m_cachedAdapters)
        /\ Range(m_cachedAdapters) \subseteq heap
        /\ DOMAIN adapterPtr = Range(m_cachedAdapters)

\* C2 witness: an enumeration did not report the handle of an Adapter the
\* caller holds; the Adapter is lost and cached
LostAdapterCached ==
    /\ EnumerationSucceeded
    /\ \E a \in held :
          /\ adapterPtr[a] = Null
          /\ \A i \in 1..Len(call.adapters) : call.adapters[i] # a
          /\ a \in Range(m_cachedAdapters) /\ a \in heap

NoNativeDeviceCreated == call.native = <<>> /\ EventsOf("vkCreateDevice") = {}

ConsistentExtensions == ~(call.numExtensions > 0 /\ call.extensionsNull)

LostAdapterCall == call.op = "createDevice" /\ call.arg # Null /\ call.lost /\ ~call.outNull

\* C3 as stated: createDevice with a Device output and a non-null Adapter
\* whose native handle is cleared returns ErrorDeviceLost, creates no native
\* device and does not write the output.
LostAdapterAlwaysDeviceLost ==
    LostAdapterCall =>
        call.result = "ErrorDeviceLost" /\ NoNativeDeviceCreated /\ ~call.wrote

\* C3 amended: createDevice with a Device output, an extension array that is
\* not a null pointer with a non-zero count, and a non-null Adapter whose
\* native handle is cleared returns ErrorDeviceLost, creates no native
\* device and does not write the output.
LostAdapterDeviceLost ==
    (LostAdapterCall /\ ConsistentExtensions) =>
        call.result = "ErrorDeviceLost" /\ NoNativeDeviceCreated /\ ~call.wrote

\* C3 witness: such a call was made with a lost Adapter and has returned
LostAdapterRefused ==
    /\ LostAdapterCall /\ ConsistentExtensions
    /\ call.result = "ErrorDeviceLost"
    /\ adapterPtr[call.arg] = Null

UnsupportedAt(i) ==
    /\ i \in 1..Len(call.extensions)
    /\ call.extensions[i].type \notin InstanceExtensionTypes

\* C4: a createInstance call that is given an Instance output and an
\* extension array with an element of unsupported type, at any position,
\* returns ErrorExtensionNotSupported, makes no native call, does not write
\* the output, and deletes the InstanceT it allocated (once), whatever the
\* other elements are.
UnsupportedExtensionFailsAll ==
    (call.op = "createInstance" /\ ~call.outNull
        /\ \E i \in 1..Len(call.extensions) : UnsupportedAt(i)) =>
        /\ call.result = "ErrorExtensionNotSupported"
        /\ call.native = <<>>
        /\ EventsOf("vkCreateInstance") = {}
        /\ ~call.wrote
        /\ Len(call.events) = 2
        /\ call.events[1].ev = "new"
        /\ call.events[2] = Event("delete", call.events[1].obj)
        /\ call.events[1].obj \notin heap
        /\ instance \notin heap

\* C4 witness: the unsupported element came after an enabled, supported one
UnsupportedAfterSupported ==
    /\ call.op = "createInstance" /\ ~call.outNull
    /\ Len(call.extensions) = 2
    /\ call.extensions[1] = [type |-> "GPUValidation", enable |-> TRUE]
    /\ UnsupportedAt(2)
    /\ call.result = "ErrorExtensionNotSupported"

\* a createDevice call whose arguments pass every check of the call's head
ValidDeviceCall ==
    /\ call.op = "createDevice" /\ ~call.outNull
    /\ call.arg # Null /\ ~call.lost /\ ConsistentExtensions

\* C5: a createDevice call with otherwise valid arguments and an extension
\* array holding a type queryExtensionSupport rejects returns
\* ErrorExtensionNotSupported, writes no Device and creates no native device
\* (stated for a driver that does not fail on its own).
UnsupportedAdapterExtensionFails ==
    (ValidDeviceCall /\ call.native \in {<<>>, <<"eSuccess">>}
        /\ \E i \in 1..Len(call.extensions) : ~queryExtensionSupport(call.extensions[i])) =>
        /\ call.result = "ErrorExtensionNotSupported"
        /\ ~call.wrote
        /\ EventsOf("vkCreateDevice") = {}

\* C6: destroyInstance on a non-null Instance deletes every cached Adapter
\* once, then destroys the native instance; afterwards no Adapter and no
\* native instance is alive.
DestroyInstanceDestroysAll ==
    (call.op = "destroyInstance" /\ call.arg # Null) =>
        /\ OfKind("Adapter", heap) = {}
        /\ \A i \in EventsOf("delete"), j \in EventsOf("delete") :
              call.events[i].obj = call.events[j].obj => i = j
        /\ \E k \in EventsOf("vkDestroyInstance") :
              \A i \in EventsOf("delete") :
                  call.events[i].obj[1] = "Adapter" => i < k
        /\ nativeInstances = {}

\* C7: destroyInstance(null) and destroyDevice(null) return without reading
\* or freeing anything, and the process goes on.
NullDestroyIsNoOp ==
    (call.op \in {"destroyInstance", "destroyDevice"} /\ call.arg = Null) =>
        call.events = <<>> /\ ~crashed

\* the second native call wrote handles and reported VK_INCOMPLETE
SecondCallIncomplete ==
    /\ call.op = "enumerateAdapters" /\ ~call.outNull
    /\ Len(call.native) = 2 /\ call.native[2] = "eIncomplete"
    /\ call.physicalDevices # <<>>

\* C8: when the second native call reports more devices than the first
\* count implied, enumerateAdapters returns Success with an Adapter for
\* every handle it obtained.
IncompleteEnumerationTolerated ==
    SecondCallIncomplete =>
        /\ call.result = "Success"
        /\ Len(call.adapters) = Len(call.physicalDevices)

\* C9: on a successful createDevice the queues handed to the device are the
\* declared ones, one per descriptor and in order; the default queue stands
\* in only for an empty declaration.
DeclaredQueuesCreated ==
    (call.op = "createDevice" /\ call.result = "Success") =>
        IF call.queueDescs = <<>>
        THEN call.queues = <<DefaultQueue>>
        ELSE Len(call.queues) = Len(call.queueDescs)

\* the native creation call of createInstance / createDevice was made and failed
NativeCreationFailed ==
    /\ call.op \in {"createInstance", "createDevice"}
    /\ call.native # <<>> /\ call.native[1] \notin {"eSuccess", "noReturn"}

\* C10: when the native creation call fails, the call returns the mapped
\* result, which is not Success, deletes the object it allocated exactly
\* once (without a native destruction, there being no native object), and
\* does not write the caller's output; the object is not on the heap after.
NativeFailureUnwinds ==
    NativeCreationFailed =>
        /\ call.result = mapVkResult(call.native[1])
        /\ call.result # "Success"
        /\ ~call.wrote
        /\ Cardinality(EventsOf("new")) = 1
        /\ \A a \in Created(call.events) :
              /\ Cardinality({i \in EventsOf("delete") : call.events[i].obj = a}) = 1
              /\ a \notin heap
        /\ EventsOf("vkCreateInstance") \cup EventsOf("vkCreateDevice")
              \cup EventsOf("vkDestroyDevice") = {}
        /\ call.op = "createInstance" => instance \notin heap

\* C10 witness: vkCreateDevice failed on a usable Adapter and the call returned
DeviceCreationUnwound ==
    /\ NativeCreationFailed /\ call.op = "createDevice"
    /\ call.result = "ErrorOutOfMemory"
    /\ Deleted(call.events) = Created(call.events)

AdapterQueries == {"queryInfo", "queryFeatures"}

NativeQueries ==
    EventsOf("vkGetPhysicalDeviceProperties") \cup EventsOf("vkGetPhysicalDeviceFeatures")

\* C11: queryInfo and queryFeatures on a lost Adapter return an error, make
\* no native query and write nothing; given an output to write to, the
\* error is ErrorDeviceRemoved. No native query is ever made on an absent
\* handle.
LostAdapterQueriesRefused ==
    call.op \in AdapterQueries =>
        /\ call.lost =>
              /\ call.result \in {"ErrorDeviceRemoved", "ErrorInvalidUsage"}
              /\ ~call.outNull => call.result = "ErrorDeviceRemoved"
              /\ ~call.wrote
              /\ NativeQueries = {}
        /\ \A i \in NativeQueries : call.events[i].obj # Null

\* C11 witness: queryFeatures was called with an output on an Adapter whose
\* handle an enumeration had cleared, and returned
LostAdapterQueried ==
    /\ call.op = "queryFeatures" /\ call.lost /\ ~call.outNull
    /\ call.arg \in Range(m_cachedAdapters)
    /\ \E h \in PhysicalDevices : h \in DOMAIN m_cachedAdapters /\ m_cachedAdapters[h] = call.arg
    /\ call.result = "ErrorDeviceRemoved"

Reported(h) == \E i \in 1..Len(call.physicalDevices) : call.physicalDevices[i] = h

\* C12: the native reference of a cached Adapter is never anything but
\* absent or the handle it is cached under; after a successful
\* enumerateAdapters it is that handle for every entry whose handle the call
\* got, and absent for every other entry.
CachePointersMatchEnumeration ==
    /\ \A h \in DOMAIN m_cachedAdapters :
          adapterPtr[m_cachedAdapters[h]] \in {Null, h}
    /\ EnumerationSucceeded =>
          \A h \in DOMAIN m_cachedAdapters :
              adapterPtr[m_cachedAdapters[h]] = (IF Reported(h) THEN h ELSE Null)

\* C12 witness: a successful enumeration got the handle of one Adapter that
\* was cached before and not the handle of another
OneRestoredOneLost ==
    /\ EnumerationSucceeded
    /\ \E h \in PhysicalDevices :
          /\ h \in DOMAIN m_cachedAdapters /\ Reported(h)
          /\ m_cachedAdapters[h] \notin Created(call.events)
          /\ adapterPtr[m_cachedAdapters[h]] = h
    /\ \E h \in PhysicalDevices :
          /\ h \in DOMAIN m_cachedAdapters /\ ~Reported(h)
          /\ adapterPtr[m_cachedAdapters[h]] = Null

\* C15: a step in which enumerateAdapters fails on a native call appends
\* nothing to the caller's list and leaves the cache as it was: the same
\* entries, and every Adapter that had its native reference still has it.
FailedEnumerationKeepsCache ==
    [][ (call.op = "none" /\ call'.op = "enumerateAdapters"
            /\ call'.native # <<>> /\ call'.result # "Success") =>
          /\ call'.adapters = <<>>
          /\ m_cachedAdapters' = m_cachedAdapters
          /\ \A a \in DOMAIN adapterPtr :
                adapterPtr[a] # Null => (a \in DOMAIN adapterPtr' /\ adapterPtr'[a] # Null)
      ]_vars

\* createInstance took the extension array: the loop ran to its end and the
\* native creation input was built and handed to the driver
InstanceInputBuilt == call.op = "createInstance" /\ call.native # <<>>

\* C16: the creation input createInstance builds from an array it takes is
\* well-formed: the pNext chain does not lead back into itself
\* (features.pNext is not &features) and the validation layer is named at
\* most once.
InstanceInputWellFormed ==
    InstanceInputBuilt =>
        /\ call.featuresPNext # Features
        /\ Cardinality({i \in 1..Len(call.layers) : call.layers[i] = ValidationLayer}) <= 1

\* C13: in the frame loop every record call finds the list in Initial and
\* every submit call finds it in Executable, and no call of the loop answers
\* ErrorInvalidUsage.
CommandListProtocolRespected ==
    /\ frameCall.op = "record" => frameCall.found = "Initial"
    /\ frameCall.op = "submit" => frameCall.found = "Executable"
    /\ frameCall.result # "ErrorInvalidUsage"

\* C13 witness: the second iteration recorded the list again and submitted it
SecondFrameSubmitted ==
    /\ frameCall.op = "submit" /\ frameCall.frame = 2
    /\ frameCall.found = "Executable"
    /\ frameCall.result = "Success"
    /\ pc = "waitFence" /\ frame = 3

\* C14: CommandGroup.reset is never called while a submission of an earlier
\* iteration is still on the queue.
ResetOnlyWhenIdle ==
    frameCall.op = "reset" => frameCall.inFlight = 0

====
